---- MODULE Spec2Model ----
(***************************************************************************)
(* seneca-web-adapter-connect: the adapter function connect(options,       *)
(* context, auth, routes, done) and composeMiddleware, as a state machine. *)
(*                                                                         *)
(* JavaScript values are records tagged by t.  Text that the code builds   *)
(* or converts (JSON bodies, URLs) is a sequence of one-character strings, *)
(* so that JSON.stringify and the query parsing are computed, not assumed. *)
(* A response handle is a recorder of the calls made on it: writeHead and  *)
(* end return normally and are logged with the party that made them.       *)
(***************************************************************************)
EXTENDS Integers, Sequences, FiniteSets, TLC

VARIABLES
  config,     \* the arguments of the one connect() invocation
  reg,        \* what that invocation did: context.use calls, done calls, throw
  requests    \* per request: its inputs, where its chain stands, its event log

vars == <<config, reg, requests>>

---------------------------------------------------------------------------
(* Bounds *)

MaxRoutes == 2      \* routes in the list handed to connect (registration runs)
MaxMw == 2          \* entries in one route's middleware list (registration runs)
MaxRequests == 2    \* requests in flight together

---------------------------------------------------------------------------
(* JavaScript values *)

Undefined == [t |-> "undefined"]
Null == [t |-> "null"]
Str(s) == [t |-> "str", v |-> s]
Num(s) == [t |-> "num", v |-> s]            \* v: the decimal text of the number
Fn(name) == [t |-> "fn", v |-> name]
Err(msg) == [t |-> "error", v |-> msg]      \* new Error(msg)
Chars(cs) == [t |-> "chars", v |-> cs]      \* a string kept as its characters
Arr(xs) == [t |-> "arr", v |-> xs]
Obj(kvs) == [t |-> "obj", v |-> kvs]        \* kvs: sequence of [k, val], k a char sequence

True == [t |-> "bool", v |-> TRUE]
False == [t |-> "bool", v |-> FALSE]

\* if (x): undefined, null, false and the empty string are falsy
Truthy(x) ==
  /\ x.t \notin {"undefined", "null"}
  /\ ~(x.t = "bool" /\ ~x.v)
  /\ ~(x.t = "str" /\ x.v = "")
  /\ ~(x.t = "chars" /\ x.v = <<>>)

\* x || y
OrElse(x, y) == IF Truthy(x) THEN x ELSE y

isString(x) == x.t \in {"str", "chars"}
isFunction(x) == x.t \in {"fn", "comp", "bridge"}

\* `${x}` for the values a middleware entry can be
TemplateText(x) ==
  CASE x.t = "str" -> x.v
    [] x.t = "num" -> x.v
    [] x.t = "undefined" -> "undefined"
    [] x.t = "null" -> "null"
    [] OTHER -> "[object Object]"

---------------------------------------------------------------------------
(* JSON.stringify *)

Quote == "\""
Backslash == "\\"

RECURSIVE EscapeChars(_)
EscapeChars(cs) ==
  IF cs = <<>> THEN <<>>
  ELSE (IF Head(cs) \in {Quote, Backslash} THEN <<Backslash, Head(cs)>> ELSE <<Head(cs)>>)
       \o EscapeChars(Tail(cs))

\* a faulty serializer: the characters between the quotes left as they are
QuoteCharsRaw(cs) == <<Quote>> \o cs \o <<Quote>>

QuoteChars(cs) == <<Quote>> \o EscapeChars(cs) \o <<Quote>>

RECURSIVE JSONstringify(_)
RECURSIVE StringifyMembers(_, _)
RECURSIVE StringifyItems(_, _)

\* the members of an object, comma separated; members holding undefined or a
\* function are left out
StringifyMembers(kvs, first) ==
  IF kvs = <<>> THEN <<>>
  ELSE LET kv == Head(kvs) IN
       IF kv.val.t \in {"undefined", "fn"} THEN StringifyMembers(Tail(kvs), first)
       ELSE (IF first THEN <<>> ELSE <<",">>)
            \o QuoteChars(kv.k) \o <<":">> \o JSONstringify(kv.val)
            \o StringifyMembers(Tail(kvs), FALSE)

\* the items of an array; undefined and functions become null
StringifyItems(xs, first) ==
  IF xs = <<>> THEN <<>>
  ELSE (IF first THEN <<>> ELSE <<",">>)
       \o (IF Head(xs).t \in {"undefined", "fn"} THEN <<"n", "u", "l", "l">>
           ELSE JSONstringify(Head(xs)))
       \o StringifyItems(Tail(xs), FALSE)

JSONstringify(x) ==
  CASE x.t = "null" -> <<"n", "u", "l", "l">>
    [] x.t = "chars" -> QuoteChars(x.v)
    [] x.t = "arr" -> <<"[">> \o StringifyItems(x.v, TRUE) \o <<"]">>
    [] x.t = "obj" -> <<"{">> \o StringifyMembers(x.v, TRUE) \o <<"}">>
    [] OTHER -> <<>>

---------------------------------------------------------------------------
(* The inputs of connect() *)

\* options.middleware of the test suite: head writes the head and goes on,
\* res ends the response and never calls its continuation
NamedMiddleware == [head |-> Fn("head"), res |-> Fn("res")]

\* middleware[key]: the value stored under key, undefined when there is none
Lookup(mapping, key) ==
  IF key \in DOMAIN mapping THEN mapping[key] ELSE Undefined

ContextObj == [t |-> "context"]

Route(path, methods, pattern, middleware, autoreply) ==
  [path |-> path, methods |-> methods, pattern |-> pattern,
   middleware |-> middleware, autoreply |-> autoreply]

---------------------------------------------------------------------------
(* composeMiddleware *)

\* the closure reduce() builds from the callables previous and current
Comp(previous, current) == [t |-> "comp", previous |-> previous, current |-> current]

RECURSIVE ReduceLeft(_, _)
ReduceLeft(acc, rest) ==
  IF rest = <<>> THEN acc
  ELSE ReduceLeft(Comp(acc, Head(rest)), Tail(rest))

\* a faulty composer: the callables folded from the right end of the list
RECURSIVE Reversed(_)
Reversed(xs) == IF xs = <<>> THEN <<>> ELSE Append(Reversed(Tail(xs)), Head(xs))
composeMiddlewareRight(mw) == ReduceLeft(Head(Reversed(mw)), Tail(Reversed(mw)))

composeMiddleware(mw) == ReduceLeft(Head(mw), Tail(mw))

---------------------------------------------------------------------------
(* connect(): the registration *)

\* the callback of (route.middleware || []).map: the entry resolved
ResolveEntry(mapping, entry) ==
  IF isString(entry) THEN Lookup(mapping, entry.v) ELSE entry

InvalidMiddlewareError(entry) ==
  Err("expected valid middleware, got " \o TemplateText(entry))

\* a faulty map(): each resolved callable put in front of those before it
RECURSIVE ResolveListPrepend(_, _, _)
ResolveListPrepend(mapping, entries, acc) ==
  IF entries = <<>> THEN [ok |-> TRUE, fns |-> acc]
  ELSE LET ret == ResolveEntry(mapping, Head(entries)) IN
       IF ~isFunction(ret)
       THEN [ok |-> FALSE, thrown |-> InvalidMiddlewareError(Head(entries))]
       ELSE ResolveListPrepend(mapping, Tail(entries), <<ret>> \o acc)

\* map() over the entries, left to right: the resolved callables, or the error
\* thrown at the first entry that does not resolve to a function
RECURSIVE ResolveList(_, _, _)
ResolveList(mapping, entries, acc) ==
  IF entries = <<>> THEN [ok |-> TRUE, fns |-> acc]
  ELSE LET ret == ResolveEntry(mapping, Head(entries)) IN
       IF ~isFunction(ret)
       THEN [ok |-> FALSE, thrown |-> InvalidMiddlewareError(Head(entries))]
       ELSE ResolveList(mapping, Tail(entries), Append(acc, ret))

\* route.middleware || []
MiddlewareOf(route) == OrElse(route.middleware, Arr(<<>>)).v

\* the request bridge: the closure over route that ends every chain
Bridge(route) == [t |-> "bridge", route |-> route]

\* the calls connect() makes on its collaborators, in the order it makes them
UseCall(path, handler) == [op |-> "use", path |-> path, handler |-> handler]
DoneCall(err, out) == [op |-> "done", err |-> err, out |-> out]

\* a faulty loop: the routes taken from the end of the list
RECURSIVE RegisterRoutesLastFirst(_, _, _)
RegisterRoutesLastFirst(mapping, routes, calls) ==
  IF routes = <<>> THEN [calls |-> calls, thrown |-> Undefined]
  ELSE LET route == routes[Len(routes)]
           res == ResolveList(mapping, OrElse(route.middleware, Arr(<<>>)).v, <<>>)
       IN IF ~res.ok THEN [calls |-> calls, thrown |-> res.thrown]
          ELSE RegisterRoutesLastFirst(mapping, SubSeq(routes, 1, Len(routes) - 1),
                 Append(calls, [op |-> "use", path |-> route.path,
                                handler |-> composeMiddleware(
                                  res.fns \o <<[t |-> "bridge", route |-> route]>>)]))

\* a faulty loop: every route validated before any is registered
RegisterRoutesAllOrNothing(mapping, routes, calls) ==
  LET res == [i \in DOMAIN routes |->
                ResolveList(mapping, OrElse(routes[i].middleware, Arr(<<>>)).v, <<>>)]
      bad == {i \in DOMAIN routes : ~res[i].ok}
  IN IF bad # {}
     THEN [calls |-> calls,
           thrown |-> res[CHOOSE i \in bad : \A j \in bad : i <= j].thrown]
     ELSE [calls |-> calls \o
             [i \in DOMAIN routes |->
                [op |-> "use", path |-> routes[i].path,
                 handler |-> composeMiddleware(
                   res[i].fns \o <<[t |-> "bridge", route |-> routes[i]]>>)]],
           thrown |-> Undefined]

\* _.each(routes, ...): one context.use per route, in order, until a throw
RECURSIVE RegisterRoutes(_, _, _)
RegisterRoutes(mapping, routes, calls) ==
  IF routes = <<>> THEN [calls |-> calls, thrown |-> Undefined]
  ELSE LET route == Head(routes)
           res == ResolveList(mapping, MiddlewareOf(route), <<>>)
       IN IF ~res.ok THEN [calls |-> calls, thrown |-> res.thrown]
          ELSE RegisterRoutes(mapping, Tail(routes),
                 Append(calls, UseCall(route.path,
                                 composeMiddleware(res.fns \o <<Bridge(route)>>))))

\* a faulty connect: the context not looked at
ConnectOutcomeNoCheck(cfg) ==
  LET r == RegisterRoutes(cfg.options.middleware, cfg.routes, <<>>) IN
  IF Truthy(r.thrown)
  THEN [pc |-> "threw", thrown |-> r.thrown, calls |-> r.calls]
  ELSE [pc |-> "returned", thrown |-> Undefined,
        calls |-> Append(r.calls, DoneCall(Null, [routes |-> cfg.routes]))]

\* the whole invocation: what it has done when it returns or throws
ConnectOutcome(cfg) ==
  IF ~Truthy(cfg.context)
  THEN [pc |-> "returned", thrown |-> Undefined,
        calls |-> <<DoneCall(Err("no context provided"), Undefined)>>]
  ELSE LET r == RegisterRoutes(cfg.options.middleware, cfg.routes, <<>>) IN
       IF Truthy(r.thrown)
       THEN [pc |-> "threw", thrown |-> r.thrown, calls |-> r.calls]
       ELSE [pc |-> "returned", thrown |-> Undefined,
             calls |-> Append(r.calls, DoneCall(Null, [routes |-> cfg.routes]))]

NotCalled == [pc |-> "start", thrown |-> Undefined, calls |-> <<>>]

Connect ==
  /\ reg.pc = "start"
  /\ reg' = ConnectOutcome(config)
  /\ UNCHANGED <<config, requests>>

\* what the host server holds: the context.use calls, in order
IsUse(c) == c.op = "use"
IsDone(c) == c.op = "done"
Uses == SelectSeq(reg.calls, IsUse)
Dones == SelectSeq(reg.calls, IsDone)

---------------------------------------------------------------------------
(* The query string of a request: QueryString.parse(URL.parse(url).query) *)

\* the index of the first c in cs, 0 when there is none
RECURSIVE FirstIndex(_, _, _)
FirstIndex(cs, c, i) ==
  IF i > Len(cs) THEN 0
  ELSE IF cs[i] = c THEN i ELSE FirstIndex(cs, c, i + 1)

\* URL.parse(url).query: the text after the first "?", null without one
UrlQuery(url) ==
  LET i == FirstIndex(url, "?", 1) IN
  IF i = 0 THEN Null ELSE Chars(SubSeq(url, i + 1, Len(url)))

\* cs split at every sep
RECURSIVE SplitAt(_, _)
SplitAt(cs, sep) ==
  LET i == FirstIndex(cs, sep, 1) IN
  IF i = 0 THEN <<cs>>
  ELSE <<SubSeq(cs, 1, i - 1)>> \o SplitAt(SubSeq(cs, i + 1, Len(cs)), sep)

\* kvs with val stored under k: a key met again collects its values in an array
RECURSIVE PutParam(_, _, _)
PutParam(kvs, k, val) ==
  IF kvs = <<>> THEN <<[k |-> k, val |-> Chars(val)]>>
  ELSE IF Head(kvs).k = k
       THEN <<[k |-> k,
               val |-> IF Head(kvs).val.t = "arr"
                       THEN Arr(Append(Head(kvs).val.v, Chars(val)))
                       ELSE Arr(<<Head(kvs).val, Chars(val)>>)]>> \o Tail(kvs)
       ELSE <<Head(kvs)>> \o PutParam(Tail(kvs), k, val)

RECURSIVE ParseParams(_, _)
ParseParams(pieces, kvs) ==
  IF pieces = <<>> THEN kvs
  ELSE LET piece == Head(pieces)
           i == FirstIndex(piece, "=", 1)
           k == IF i = 0 THEN piece ELSE SubSeq(piece, 1, i - 1)
           val == IF i = 0 THEN <<>> ELSE SubSeq(piece, i + 1, Len(piece))
       IN IF piece = <<>> THEN ParseParams(Tail(pieces), kvs)
          ELSE ParseParams(Tail(pieces), PutParam(kvs, k, val))

\* QueryString.parse: no text gives the empty mapping
QueryStringParse(q) ==
  IF ~Truthy(q) THEN Obj(<<>>) ELSE Obj(ParseParams(SplitAt(q.v, "&"), <<>>))

---------------------------------------------------------------------------
(* One request going through a registered chain *)

\* A request record q: id names its request and response handles; handler is
\* the context.use it was handed to and inp what the host server handed over; stack holds the callables still to run, each
\* the current of a closure built by composeMiddleware, innermost first, with
\* the host server's own next below them; cur is the callable that has been
\* entered and has not yet called back; log is everything done for it.

Requests == 1 .. MaxRequests

IdleRequest(r) ==
  [id |-> r, st |-> "idle", handler |-> 0, inp |-> Undefined, stack |-> <<>>,
   cur |-> Undefined,
   log |-> <<>>]

Logged(q, ev) == [q EXCEPT !.log = Append(@, ev)]

StartEv(f) == [op |-> "start", who |-> f]
ContEv(f, err) == [op |-> "cont", who |-> f, err |-> err]
NextEv(err) == [op |-> "next", err |-> err]
WriteHeadEv(by, res, status, headers) ==
  [op |-> "writeHead", by |-> by, res |-> res, status |-> status, headers |-> headers]
EndEv(by, res, body) == [op |-> "end", by |-> by, res |-> res, body |-> body]
ReadBodyEv(req) == [op |-> "readBody", req |-> req]
BodyReadEv(err, body) == [op |-> "bodyRead", err |-> err, body |-> body]
ActEv(pattern, payload) == [op |-> "act", pattern |-> pattern, payload |-> payload]
ActDoneEv(err, response) == [op |-> "actDone", err |-> err, response |-> response]

JsonHeaders == <<[k |-> "Content-Type", val |-> "application/json"]>>

\* {success: true} of the test suite's res middleware, stringified
SuccessBody ==
  <<"{", Quote, "s", "u", "c", "c", "e", "s", "s", Quote, ":", "t", "r", "u", "e", "}">>

\* array.indexOf(x): zero based, -1 when x is not an element
indexOf(arr, x) == FirstIndex(arr, x, 1) - 1

RECURSIVE Invoke(_, _, _)
RECURSIVE CallContinuation(_, _, _)

\* a faulty closure: the error argument not looked at
CallContinuationNoCheck(options, q, err) ==
  IF q.stack = <<>>
  THEN [Logged(q, NextEv(err)) EXCEPT !.st = "nexted", !.cur = Undefined]
  ELSE Invoke(options, Head(q.stack), [q EXCEPT !.stack = Tail(@)])

\* the continuation handed to the callable that just ran is called with err:
\* (err) => { if (err) { return next(err) }; current(req, res, next) },
\* and below every closure the host server's next
CallContinuation(options, q, err) ==
  IF q.stack = <<>>
  THEN [Logged(q, NextEv(err)) EXCEPT !.st = "nexted", !.cur = Undefined]
  ELSE IF Truthy(err)
       THEN CallContinuation(options, [q EXCEPT !.stack = Tail(@)], err)
       ELSE Invoke(options, Head(q.stack), [q EXCEPT !.stack = Tail(@)])

\* a faulty payload: the query string handed on as it stands in the URL
PayloadRawQuery(route, q, body) ==
  [request |-> q.id, response |-> q.id,
   args |-> [body |-> body, route |-> route,
             query |-> UrlQuery(q.inp.originalUrl)]]

\* the payload handed to seneca.act
Payload(route, q, body) ==
  [request |-> q.id, response |-> q.id,
   args |-> [body |-> body, route |-> route,
             query |-> QueryStringParse(UrlQuery(q.inp.originalUrl))]]

\* a faulty bridge: every closure sharing the route the loop ended on
FinishSharedRoute(options, route, q, err, body) ==
  LET last == config.routes[Len(config.routes)] IN
  IF Truthy(err) THEN CallContinuation(options, q, err)
  ELSE [Logged(q, ActEv(last.pattern, Payload(last, q, body))) EXCEPT !.st = "acting"]

\* a faulty finish: if (err) next(err) without the return
FinishNoReturn(options, route, q, err, body) ==
  LET q1 == IF Truthy(err) THEN CallContinuation(options, q, err) ELSE q IN
  [Logged(q1, ActEv(route.pattern, Payload(route, q, body)))
   EXCEPT !.st = "acting", !.cur = Bridge(route)]

\* a faulty finish: the body attached to the request dispatched, not the one read
FinishAttachedBody(options, route, q, err, body) ==
  IF Truthy(err) THEN CallContinuation(options, q, err)
  ELSE [Logged(q, ActEv(route.pattern, Payload(route, q, OrElse(q.inp.body, Obj(<<>>)))))
        EXCEPT !.st = "acting"]

\* finish(err, body) of the bridge
Finish(options, route, q, err, body) ==
  IF Truthy(err) THEN CallContinuation(options, q, err)
  ELSE [Logged(q, ActEv(route.pattern, Payload(route, q, body))) EXCEPT !.st = "acting"]

\* a faulty bridge: the method not looked at
BridgeRunNoFilter(options, route, q) ==
  LET q1 == [Logged(q, StartEv(Bridge(route))) EXCEPT !.cur = Bridge(route)] IN
  IF Truthy(options.parseBody)
  THEN [Logged(q1, ReadBodyEv(q.id)) EXCEPT !.st = "reading"]
  ELSE Finish(options, route, q1, Null, OrElse(q.inp.body, Obj(<<>>)))

\* a faulty bridge: the body reader called whatever options.parseBody
BridgeRunAlwaysRead(options, route, q) ==
  LET q1 == [Logged(q, StartEv(Bridge(route))) EXCEPT !.cur = Bridge(route)] IN
  IF indexOf(route.methods, q.inp.method) # -1
  THEN [Logged(q1, ReadBodyEv(q.id)) EXCEPT !.st = "reading"]
  ELSE [q1 EXCEPT !.st = "dropped"]

\* the request bridge, entered
BridgeRun(options, route, q) ==
  LET q1 == [Logged(q, StartEv(Bridge(route))) EXCEPT !.cur = Bridge(route)] IN
  IF indexOf(route.methods, q.inp.method) # -1
  THEN IF Truthy(options.parseBody)
       THEN [Logged(q1, ReadBodyEv(q.id)) EXCEPT !.st = "reading"]
       ELSE Finish(options, route, q1, Null, OrElse(q.inp.body, Obj(<<>>)))
  ELSE [q1 EXCEPT !.st = "dropped"]

\* a faulty callback: the reply written whatever the route's autoreply
ActCallbackAlways(options, route, q, err, response) ==
  IF Truthy(err) THEN CallContinuation(options, q, err)
  ELSE [Logged(Logged(q, WriteHeadEv("adapter", q.id, 200, JsonHeaders)),
               EndEv("adapter", q.id, JSONstringify(response)))
        EXCEPT !.st = "replied", !.cur = Undefined]

\* a faulty callback: the dispatch error not handed on before the reply
ActCallbackNoReturn(options, route, q, err, response) ==
  LET q1 == IF Truthy(err) THEN CallContinuation(options, q, err) ELSE q IN
  IF route.autoreply
  THEN [Logged(Logged(q1, WriteHeadEv("adapter", q.id, 200, JsonHeaders)),
               EndEv("adapter", q.id, JSONstringify(response)))
        EXCEPT !.st = "replied", !.cur = Undefined]
  ELSE [q1 EXCEPT !.st = "silent", !.cur = Undefined]

\* a faulty callback: the request handed on once the dispatch has succeeded
ActCallbackNextAfter(options, route, q, err, response) ==
  IF Truthy(err) THEN CallContinuation(options, q, err)
  ELSE IF route.autoreply
       THEN [Logged(Logged(q, WriteHeadEv("adapter", q.id, 200, JsonHeaders)),
                    EndEv("adapter", q.id, JSONstringify(response)))
             EXCEPT !.st = "replied", !.cur = Undefined]
       ELSE CallContinuation(options, q, Undefined)

\* a faulty callback: the reply written on the response of the first request
ActCallbackFirstResponse(options, route, q, err, response) ==
  IF Truthy(err) THEN CallContinuation(options, q, err)
  ELSE IF route.autoreply
       THEN [Logged(Logged(q, WriteHeadEv("adapter", 1, 200, JsonHeaders)),
                    EndEv("adapter", 1, JSONstringify(response)))
             EXCEPT !.st = "replied", !.cur = Undefined]
       ELSE [q EXCEPT !.st = "silent", !.cur = Undefined]

\* the callback handed to seneca.act
ActCallback(options, route, q, err, response) ==
  IF Truthy(err) THEN CallContinuation(options, q, err)
  ELSE IF route.autoreply
       THEN [Logged(Logged(q, WriteHeadEv("adapter", q.id, 200, JsonHeaders)),
                    EndEv("adapter", q.id, JSONstringify(response)))
             EXCEPT !.st = "replied", !.cur = Undefined]
       ELSE [q EXCEPT !.st = "silent", !.cur = Undefined]

\* what a middleware passes to its continuation
ContinuationArg(f) == IF f.v = "deny" THEN Err("denied") ELSE Undefined

\* a faulty chain: the middleware too run only for the methods of the route
MiddlewareRunFiltered(f, q) ==
  LET q1 == [Logged(q, StartEv(f)) EXCEPT !.cur = f] IN
  IF indexOf(config.routes[q.handler].methods, q.inp.method) = -1
  THEN [q EXCEPT !.st = "dropped"]
  ELSE CASE f.v = "head" ->
              [Logged(q1, WriteHeadEv("middleware", q.id, 200, JsonHeaders)) EXCEPT !.st = "pending"]
         [] f.v = "res" ->
              [Logged(q1, EndEv("middleware", q.id, SuccessBody)) EXCEPT !.st = "stopped"]
         [] OTHER -> [q1 EXCEPT !.st = "pending"]

\* a middleware, entered: head writes the head and will go on, res ends the
\* response and never calls its continuation, deny will call it with an error,
\* any other does nothing and will go on
MiddlewareRun(f, q) ==
  LET q1 == [Logged(q, StartEv(f)) EXCEPT !.cur = f] IN
  CASE f.v = "head" ->
         [Logged(q1, WriteHeadEv("middleware", q.id, 200, JsonHeaders)) EXCEPT !.st = "pending"]
    [] f.v = "res" ->
         [Logged(q1, EndEv("middleware", q.id, SuccessBody)) EXCEPT !.st = "stopped"]
    [] OTHER -> [q1 EXCEPT !.st = "pending"]

\* f(req, res, next) with next standing for q.stack
Invoke(options, f, q) ==
  CASE f.t = "comp" ->
         Invoke(options, f.previous, [q EXCEPT !.stack = <<f.current>> \o @])
    [] f.t = "bridge" -> BridgeRun(options, f.route, q)
    [] OTHER -> MiddlewareRun(f, q)

---------------------------------------------------------------------------
(* The collaborators' inputs *)

\* request.body as the host server or an earlier body parser left it
FooBar == Obj(<<[k |-> <<"f", "o", "o">>, val |-> Chars(<<"b", "a", "r">>)]>>)

\* what the host server hands over with a request: its method, the body
\* attached to it, its originalUrl
RequestInputs ==
  {[method |-> "GET", body |-> Undefined,
    originalUrl |-> <<"/", "p", "?", "a", "=", "1", "&", "b", "=", "2">>],
   [method |-> "POST", body |-> FooBar, originalUrl |-> <<"/", "p">>],
   [method |-> "POST", body |-> Undefined, originalUrl |-> <<"/", "p", "?", "a", "=", "1", "&", "a", "=", "2">>]}

\* what the body reader yields: an error, or the body as text
RawFooBar == Chars(<<"{", Quote, "f", "o", "o", Quote, ":", Quote, "b", "a", "r", Quote, "}">>)
ReadBodyResults == {[err |-> Err("invalid body"), body |-> Undefined],
                    [err |-> Null, body |-> RawFooBar]}

\* what a dispatch yields: an error, or a result
Pong == Obj(<<[k |-> <<"r", "e", "s">>, val |-> Chars(<<"p", "o", "n", "g", "!">>)]>>)
Echo == Obj(<<[k |-> <<"v", "a", "l", "u", "e">>, val |-> RawFooBar]>>)
ActResults == {[err |-> Err("aw snap!"), response |-> Undefined, ends |-> FALSE],
               [err |-> Null, response |-> Pong, ends |-> FALSE],
               [err |-> Null, response |-> Echo, ends |-> FALSE],
               [err |-> Null, response |-> Pong, ends |-> TRUE]}

---------------------------------------------------------------------------
(* The requests *)

\* the host server hands request r to the handler of the h-th context.use
Arrive(r, h, inp) ==
  /\ reg.pc # "start"
  /\ requests[r].st = "idle"
  /\ h \in 1 .. Len(Uses)
  /\ requests' = [requests EXCEPT ![r] =
       Invoke(config.options, Uses[h].handler,
              [IdleRequest(r) EXCEPT !.inp = inp, !.handler = h])]
  /\ UNCHANGED <<config, reg>>

\* the middleware that was entered calls its continuation
MiddlewareContinues(r) ==
  LET q == requests[r]
      err == ContinuationArg(q.cur)
  IN /\ q.st = "pending"
     /\ requests' = [requests EXCEPT ![r] =
          CallContinuation(config.options, Logged(q, ContEv(q.cur, err)), err)]
     /\ UNCHANGED <<config, reg>>

\* the body reader calls finish
ReadBodyYields(r, y) ==
  LET q == requests[r] IN
  /\ q.st = "reading"
  /\ requests' = [requests EXCEPT ![r] =
       Finish(config.options, q.cur.route, Logged(q, BodyReadEv(y.err, y.body)),
              y.err, y.body)]
  /\ UNCHANGED <<config, reg>>

\* the dispatch completes: the handler of the pattern may have ended the
\* response itself through the payload's handle; then the callback runs
ActReplies(r, y) ==
  LET q == requests[r]
      q1 == IF y.ends THEN Logged(q, EndEv("handler", q.id, SuccessBody)) ELSE q
  IN /\ q.st = "acting"
     /\ requests' = [requests EXCEPT ![r] =
          ActCallback(config.options, q.cur.route,
                      Logged(q1, ActDoneEv(y.err, y.response)), y.err, y.response)]
     /\ UNCHANGED <<config, reg>>

---------------------------------------------------------------------------
(* The configurations *)

Options(parseBody) == [middleware |-> NamedMiddleware, parseBody |-> parseBody]

RouteOne == Route("/one", <<"GET">>, "role:test,cmd:one", Undefined, TRUE)
RouteTwo == Route("/two", <<"GET">>, "role:test,cmd:two", Arr(<<Fn("pass")>>), TRUE)
RouteEcho == Route("/echo", <<"POST">>, "role:test,cmd:echo", Arr(<<>>), TRUE)
RouteQuiet ==
  Route("/quiet", <<"GET", "POST">>, "role:test,cmd:quiet", Arr(<<Str("head")>>), FALSE)
RoutePing ==
  Route("/ping", <<"GET">>, "role:test,cmd:ping", Arr(<<Str("head"), Str("res")>>), TRUE)
RouteGuard ==
  Route("/guard", <<"GET">>, "role:test,cmd:guard", Arr(<<Fn("deny"), Str("head")>>), TRUE)
RouteLate ==
  Route("/late", <<"GET">>, "role:test,cmd:late", Arr(<<Fn("head"), Fn("deny")>>), FALSE)
RouteBad ==
  Route("/bad", <<"GET">>, "role:test,cmd:bad", Arr(<<Str("total not valid")>>), TRUE)

RouteWorse ==
  Route("/worse", <<"GET">>, "role:test,cmd:worse", Arr(<<Str("head"), Num("42")>>), TRUE)

\* the route lists the requests are run against
ScenarioRoutes ==
  {<<RouteOne, RouteTwo>>, <<RouteEcho, RouteQuiet>>, <<RoutePing, RouteGuard>>,
   <<RouteLate, RouteOne>>, <<RouteOne, RouteBad>>, <<RouteWorse, RouteOne>>}

Scenarios ==
  {[options |-> Options(pb), context |-> ContextObj, routes |-> rs] :
     pb \in {True, False}, rs \in ScenarioRoutes}
  \cup {[options |-> Options(True), context |-> Undefined, routes |-> <<RouteOne>>]}

\* the route lists the registration alone is run against: every list of at
\* most MaxRoutes routes whose middleware is absent or a list of at most MaxMw
\* entries
MwEntries == {Str("head"), Fn("deny"), Str("total not valid")}

SeqsUpTo(S, n) == UNION {[1 .. k -> S] : k \in 0 .. n}

MwFields == {Undefined} \cup {Arr(es) : es \in SeqsUpTo(MwEntries, MaxMw)}

RoutePaths == <<"/one", "/two", "/three", "/four">>
RoutePatterns == <<"cmd:one", "cmd:two", "cmd:three", "cmd:four">>

RegRoutes(f, n) ==
  [k \in 1 .. n |-> Route(RoutePaths[k], <<"GET">>, RoutePatterns[k], f[k], TRUE)]

---------------------------------------------------------------------------
(* The specifications *)

InitWith(inputs) ==
  /\ config \in inputs
  /\ reg = NotCalled
  /\ requests = [r \in Requests |-> IdleRequest(r)]

Init == InitWith(Scenarios)

Next ==
  \/ Connect
  \/ \E r \in Requests, h \in 1 .. Len(Uses), inp \in RequestInputs : Arrive(r, h, inp)
  \/ \E r \in Requests : MiddlewareContinues(r)
  \/ \E r \in Requests, y \in ReadBodyResults : ReadBodyYields(r, y)
  \/ \E r \in Requests, y \in ActResults : ActReplies(r, y)

Spec == Init /\ [][Next]_vars

\* the registration alone, over every route list within the bounds
InitReg ==
  /\ \E n \in 0 .. MaxRoutes, c \in {ContextObj, Undefined} :
       \E f \in [1 .. n -> MwFields] :
         config = [options |-> Options(True), context |-> c, routes |-> RegRoutes(f, n)]
  /\ reg = NotCalled
  /\ requests = [r \in Requests |-> IdleRequest(r)]

SpecReg == InitReg /\ [][Connect]_vars

---------------------------------------------------------------------------
(* What the claims speak of *)

Range(f) == {f[i] : i \in DOMAIN f}

\* the events of a log that satisfy a test, with their positions
Positions(log, Test(_)) == {i \in DOMAIN log : Test(log[i])}

IsAct(e) == e.op = "act"
IsActDone(e) == e.op = "actDone"
IsReadBody(e) == e.op = "readBody"
IsNext(e) == e.op = "next"
IsStart(e) == e.op = "start"
IsCont(e) == e.op = "cont"
IsStartOrCont(e) == e.op \in {"start", "cont"}
IsAdapterWrite(e) == e.op \in {"writeHead", "end"} /\ e.by = "adapter"
IsWrite(e) == e.op \in {"writeHead", "end"}

Arrived == {r \in Requests : requests[r].st # "idle"}

\* the route descriptor a request was delivered to: the host server holds
\* one handler per registered route, in the order of the route list
RouteServed(q) == config.routes[q.handler]

\* a middleware entry as the resolver is to understand it
ResolvedEntry(e) ==
  IF e.t = "str"
  THEN (IF e.v \in DOMAIN config.options.middleware
        THEN config.options.middleware[e.v] ELSE Undefined)
  ELSE e
ValidEntry(e) == ResolvedEntry(e).t = "fn"
EntriesOf(route) == IF route.middleware.t = "arr" THEN route.middleware.v ELSE <<>>
ValidRoute(route) == \A i \in DOMAIN EntriesOf(route) : ValidEntry(EntriesOf(route)[i])

\* the members of a route's chain: m1 .. mn, then the bridge
ChainMembers(route) ==
  [i \in 1 .. Len(EntriesOf(route)) + 1 |->
     IF i <= Len(EntriesOf(route)) THEN ResolvedEntry(EntriesOf(route)[i])
     ELSE [t |-> "bridge", route |-> route]]

\* the serializations the results are to have
PongJson ==
  <<"{", Quote, "r", "e", "s", Quote, ":", Quote, "p", "o", "n", "g", "!", Quote, "}">>
EchoJson ==
  <<"{", Quote, "v", "a", "l", "u", "e", Quote, ":", Quote,
    "{", Backslash, Quote, "f", "o", "o", Backslash, Quote, ":",
    Backslash, Quote, "b", "a", "r", Backslash, Quote, "}", Quote, "}">>
JsonOf(result) == IF result = Pong THEN PongJson ELSE EchoJson

---------------------------------------------------------------------------
(* The claims *)

\* the result a request's own dispatch completed with, when it completed
\* without error
Succeeded(q) == \E i \in Positions(q.log, IsActDone) : ~Truthy(q.log[i].err)
ResultOf(q) == q.log[CHOOSE i \in Positions(q.log, IsActDone) : TRUE].response
Failed(q) == \E i \in Positions(q.log, IsActDone) : Truthy(q.log[i].err)
ErrorOf(q) == q.log[CHOOSE i \in Positions(q.log, IsActDone) : TRUE].err

\* C1: on a route with autoreply set, a request whose method is among the
\* route's methods and whose dispatch completed without error with result R has
\* had written by the adapter, once and in this order, the head 200 with
\* Content-Type: application/json and the end of the response with the JSON
\* text of R, on its own response.
C1_AutoreplyWritesJson ==
  \A r \in Arrived :
    LET q == requests[r] IN
    (RouteServed(q).autoreply /\ q.inp.method \in Range(RouteServed(q).methods)
       /\ Succeeded(q))
    => SelectSeq(q.log, IsAdapterWrite)
         = <<[op |-> "writeHead", by |-> "adapter", res |-> r, status |-> 200,
              headers |-> <<[k |-> "Content-Type", val |-> "application/json"]>>],
             [op |-> "end", by |-> "adapter", res |-> r, body |-> JsonOf(ResultOf(q))]>>

\* C1 happens: an autoreply request has been answered with a result whose text
\* needs escaping
C1_Witness ==
  \E r \in Arrived :
    /\ RouteServed(requests[r]).autoreply
    /\ Succeeded(requests[r])
    /\ ResultOf(requests[r]) = Echo
    /\ requests[r].st = "replied"

\* C2: on a route with autoreply unset, a request whose dispatch completed
\* without error has no writeHead and no end made by the adapter: every write
\* on its response is a middleware's or the dispatched handler's.
C2_NoAutoreplyNoWrite ==
  \A r \in Arrived :
    LET q == requests[r] IN
    (~RouteServed(q).autoreply /\ Succeeded(q))
    => \A i \in Positions(q.log, IsWrite) : q.log[i].by \in {"middleware", "handler"}

\* C2 happens: a dispatch succeeded on a route without autoreply, the response
\* having been written by a middleware and ended by the handler
C2_Witness ==
  \E r \in Arrived :
    /\ ~RouteServed(requests[r]).autoreply
    /\ Succeeded(requests[r])
    /\ \E i \in Positions(requests[r].log, IsWrite) : requests[r].log[i].by = "handler"
    /\ \E i \in Positions(requests[r].log, IsWrite) : requests[r].log[i].by = "middleware"

\* C3: a request whose dispatch reported the error E has had the host server's
\* next called once, with E, has been dispatched once, and has no write made
\* by the adapter, with autoreply set or unset.
C3_DispatchErrorToNext ==
  \A r \in Arrived :
    LET q == requests[r] IN
    Failed(q)
    => /\ SelectSeq(q.log, IsNext) = <<[op |-> "next", err |-> ErrorOf(q)]>>
       /\ Cardinality(Positions(q.log, IsAct)) = 1
       /\ Positions(q.log, IsAdapterWrite) = {}

\* C3 happens: a dispatch has failed on an autoreply route and on another
\* without autoreply
C3_Witness ==
  /\ \E r \in Arrived : Failed(requests[r]) /\ RouteServed(requests[r]).autoreply
  /\ \E r \in Arrived : Failed(requests[r]) /\ ~RouteServed(requests[r]).autoreply

\* the first route of the list with an invalid middleware entry, and that entry
InvalidRoutes == {k \in DOMAIN config.routes : ~ValidRoute(config.routes[k])}
FirstInvalidRoute == CHOOSE k \in InvalidRoutes : \A j \in InvalidRoutes : k <= j
FirstInvalidEntry ==
  LET es == EntriesOf(config.routes[FirstInvalidRoute])
      bad == {i \in DOMAIN es : ~ValidEntry(es[i])}
  IN es[CHOOSE i \in bad : \A j \in bad : i <= j]

\* C4: with a context, once connect has run on a route list holding an invalid
\* middleware entry, it has failed with the error 'expected valid middleware,
\* got <entry>' and context.use has been called for no route, those before the
\* invalid one included.
C4_InvalidMiddlewareRegistersNothing ==
  (reg.pc # "start" /\ Truthy(config.context) /\ InvalidRoutes # {})
  => /\ reg.pc = "threw"
     /\ reg.thrown = Err("expected valid middleware, got " \o FirstInvalidEntry.v)
     /\ Uses = <<>>

\* C5: a request whose method is not among its route's methods is never
\* dispatched and never has its body read.
C5_MethodMismatchNoDispatch ==
  \A r \in Arrived :
    LET q == requests[r] IN
    q.inp.method \notin Range(RouteServed(q).methods)
    => /\ Positions(q.log, IsAct) = {}
       /\ Positions(q.log, IsReadBody) = {}

\* C5 happens: the bridge was entered with a method the route does not have,
\* with body parsing enabled, after a middleware of the route had gone on
C5_Witness ==
  \E r \in Arrived :
    /\ requests[r].inp.method \notin Range(RouteServed(requests[r]).methods)
    /\ Truthy(config.options.parseBody)
    /\ requests[r].st = "dropped"
    /\ Positions(requests[r].log, IsCont) # {}

\* C6: the members of a route's chain are entered in list order, each after
\* the one before it has called its continuation without an error, and a
\* dispatch is made only after the bridge, the last member, has been entered;
\* so a member that never calls its continuation is the last to run.
C6_ChainInOrder ==
  \A r \in Arrived :
    LET q == requests[r]
        chain == ChainMembers(RouteServed(q))
        sc == SelectSeq(q.log, IsStartOrCont)
    IN /\ Len(sc) <= 2 * Len(chain)
       /\ \A i \in DOMAIN sc :
            IF i % 2 = 1
            THEN /\ sc[i] = [op |-> "start", who |-> chain[(i + 1) \div 2]]
                 /\ i > 1 => ~Truthy(sc[i - 1].err)
            ELSE /\ sc[i].op = "cont"
                 /\ sc[i].who = chain[i \div 2]
       /\ \A a \in Positions(q.log, IsAct) :
            \E b \in Positions(q.log, IsStart) :
              /\ b < a
              /\ q.log[b].who = chain[Len(chain)]
              /\ Cardinality({c \in Positions(q.log, IsCont) : c < b}) = Len(chain) - 1

\* C6 happens: the second of two middleware was entered after the first went
\* on, ended the response and never called back, the bridge not entered
C6_Witness ==
  \E r \in Arrived :
    /\ requests[r].st = "stopped"
    /\ Len(ChainMembers(RouteServed(requests[r]))) = 3
    /\ Cardinality(Positions(requests[r].log, IsStart)) = 2
    /\ Positions(requests[r].log, IsAct) = {}

\* C7: once a member of a chain has called its continuation with the error E,
\* the host server's next has been called once, with E, nothing else is done
\* for the request afterwards, and no later member, no body read, no dispatch
\* and no write by the adapter has happened for it.
C7_ErrorShortCircuits ==
  \A r \in Arrived :
    LET q == requests[r] IN
    \A i \in Positions(q.log, IsCont) :
      Truthy(q.log[i].err)
      => /\ SelectSeq(q.log, IsNext) = <<[op |-> "next", err |-> q.log[i].err]>>
         /\ \A j \in DOMAIN q.log : j > i => q.log[j].op = "next"
         /\ Cardinality(Positions(q.log, IsStart)) = Cardinality(Positions(q.log, IsCont))
         /\ Positions(q.log, IsReadBody) = {}
         /\ Positions(q.log, IsAct) = {}
         /\ Positions(q.log, IsAdapterWrite) = {}

\* C7 happens: the first of two middleware called back with an error, the
\* second and the bridge still to run
C7_Witness ==
  \E r \in Arrived :
    /\ \E i \in Positions(requests[r].log, IsCont) : Truthy(requests[r].log[i].err)
    /\ Len(ChainMembers(RouteServed(requests[r]))) = 3
    /\ Cardinality(Positions(requests[r].log, IsStart)) = 1
    /\ requests[r].st = "nexted"

\* C8: connect called without a context has called done once, with the error
\* 'no context provided' and no summary, and has done nothing else: no
\* context.use, no middleware resolved (so nothing thrown), and it has returned.
C8_NoContextFails ==
  (reg.pc # "start" /\ config.context = Undefined)
  => reg = [pc |-> "returned", thrown |-> Undefined,
            calls |-> <<[op |-> "done", err |-> Err("no context provided"),
                         out |-> Undefined]>>]

\* C8 happens: connect has run without a context on two routes, one of them
\* with an invalid middleware entry
C8_Witness ==
  /\ reg.pc # "start"
  /\ config.context = Undefined
  /\ Len(config.routes) = 2
  /\ InvalidRoutes # {}

\* C9: connect called with a context and routes whose middleware all resolve
\* has called context.use once per route, with the route's path, in the order
\* of the list, and then done once, with a null error and a summary whose
\* routes are the list it was given.
C9_RegistersInOrderThenDone ==
  (reg.pc # "start" /\ config.context # Undefined /\ InvalidRoutes = {})
  => /\ reg.pc = "returned"
     /\ Len(reg.calls) = Len(config.routes) + 1
     /\ \A k \in DOMAIN config.routes :
          reg.calls[k].op = "use" /\ reg.calls[k].path = config.routes[k].path
     /\ reg.calls[Len(reg.calls)]
          = [op |-> "done", err |-> Null, out |-> [routes |-> config.routes]]

\* C9 happens: connect has run with a context on two routes that both have
\* middleware, all of it valid
C9_Witness ==
  /\ reg.pc # "start"
  /\ config.context # Undefined
  /\ InvalidRoutes = {}
  /\ Len(config.routes) = 2
  /\ \A k \in DOMAIN config.routes : EntriesOf(config.routes[k]) # <<>>

\* C10: with routes of distinct paths and distinct patterns, every dispatch
\* made for a request has the pattern of the route the request was delivered
\* to and that route's descriptor in its payload, and no other route's pattern.
DistinctRoutes ==
  \A j, k \in DOMAIN config.routes :
    j # k => /\ config.routes[j].path # config.routes[k].path
             /\ config.routes[j].pattern # config.routes[k].pattern

C10_RoutesDoNotInteract ==
  DistinctRoutes
  => \A r \in Arrived :
       LET q == requests[r] IN
       \A a \in Positions(q.log, IsAct) :
         /\ q.log[a].pattern = RouteServed(q).pattern
         /\ q.log[a].payload.args.route = RouteServed(q)
         /\ \A k \in DOMAIN config.routes :
              k # q.handler => q.log[a].pattern # config.routes[k].pattern

\* C10 happens: two requests, delivered to different routes, are both
\* dispatched and neither dispatch has completed
C10_Witness ==
  \E r1, r2 \in Arrived :
    /\ requests[r1].handler # requests[r2].handler
    /\ requests[r1].st = "acting"
    /\ requests[r2].st = "acting"

---------------------------------------------------------------------------
(* The claims about the bridge's body, payload and continuation *)

IsBodyRead(e) == e.op = "bodyRead"
IsBridgeStart(e) == e.op = "start" /\ e.who.t = "bridge"
BridgeEntered(q) == Positions(q.log, IsBridgeStart) # {}
MethodMatches(q) == q.inp.method \in Range(RouteServed(q).methods)

C12_ParseBodyReadsThenDispatches ==
  \A r \in Arrived :
    LET q == requests[r] IN
    (Truthy(config.options.parseBody) /\ BridgeEntered(q) /\ MethodMatches(q))
    => /\ Cardinality(Positions(q.log, IsReadBody)) = 1
       /\ Cardinality(Positions(q.log, IsBodyRead)) <= 1
       /\ \A a \in Positions(q.log, IsAct) :
            \E b \in Positions(q.log, IsBodyRead) :
              /\ b < a
              /\ ~Truthy(q.log[b].err)
              /\ q.log[a].payload.args.body = q.log[b].body
       /\ \A b \in Positions(q.log, IsBodyRead) :
            IF Truthy(q.log[b].err)
            THEN /\ SelectSeq(q.log, IsNext) = <<[op |-> "next", err |-> q.log[b].err]>>
                 /\ Positions(q.log, IsAct) = {}
            ELSE Cardinality(Positions(q.log, IsAct)) = 1

\* C12 happens: a request with a body attached has been dispatched with the
\* body the reader yielded, and another has had its read fail
C12_Witness ==
  /\ \E r \in Arrived :
       /\ requests[r].inp.body = FooBar
       /\ \E a \in Positions(requests[r].log, IsAct) :
            requests[r].log[a].payload.args.body = RawFooBar
  /\ \E r \in Arrived :
       \E b \in Positions(requests[r].log, IsBodyRead) : Truthy(requests[r].log[b].err)

\* C13: a request whose method is not among the route's methods has, once the
\* route's chain has returned, been neither answered nor dispatched by the
\* chain and has been handed on to the host server (next called, no error).
C13_MethodMismatchLeftToHost ==
  \A r \in Arrived :
    LET q == requests[r] IN
    (BridgeEntered(q) /\ ~MethodMatches(q))
    => /\ Positions(q.log, IsAct) = {}
       /\ Positions(q.log, IsAdapterWrite) = {}
       /\ SelectSeq(q.log, IsNext) = <<[op |-> "next", err |-> [t |-> "undefined"]]>>

\* the value a text of the query string stands for
QText(cs) == [t |-> "chars", v |-> cs]

\* the key-to-value mapping each URL of the requests carries, written out
QueryOf(url) ==
  CASE url = <<"/", "p", "?", "a", "=", "1", "&", "b", "=", "2">>
         -> [t |-> "obj", v |-> <<[k |-> <<"a">>, val |-> QText(<<"1">>)],
                                  [k |-> <<"b">>, val |-> QText(<<"2">>)]>>]
    [] url = <<"/", "p">>
         -> [t |-> "obj", v |-> <<>>]
    [] url = <<"/", "p", "?", "a", "=", "1", "&", "a", "=", "2">>
         -> [t |-> "obj", v |-> <<[k |-> <<"a">>,
                                   val |-> [t |-> "arr", v |-> <<QText(<<"1">>), QText(<<"2">>)>>]]>>]

\* the body the bridge has acquired for a request: the one the reader yielded
\* with parseBody, else the attached one or the empty mapping
BodyAcquired(q) ==
  IF Truthy(config.options.parseBody)
  THEN \E b \in Positions(q.log, IsBodyRead) : ~Truthy(q.log[b].err)
  ELSE BridgeEntered(q)
AcquiredBody(q) ==
  IF Truthy(config.options.parseBody)
  THEN q.log[CHOOSE b \in Positions(q.log, IsBodyRead) : TRUE].body
  ELSE IF q.inp.body = Undefined THEN [t |-> "obj", v |-> <<>>] ELSE q.inp.body

\* C14: a request whose method matches and whose body has been acquired has
\* been dispatched exactly once, with the pattern of the route served and a
\* payload of its own request and response handles, the acquired body, the
\* whole descriptor of the route served and the mapping parsed from the query
\* string of its URL.
C14_DispatchOncePatternAndPayload ==
  \A r \in Arrived :
    LET q == requests[r] IN
    (MethodMatches(q) /\ BodyAcquired(q))
    => SelectSeq(q.log, IsAct)
         = <<[op |-> "act",
              pattern |-> RouteServed(q).pattern,
              payload |-> [request |-> r, response |-> r,
                           args |-> [body |-> AcquiredBody(q),
                                     route |-> RouteServed(q),
                                     query |-> QueryOf(q.inp.originalUrl)]]]>>

\* C14 happens: two requests in the same run dispatched, one with a query of two
\* keys and one with a repeated key
C14_Witness ==
  \E r1, r2 \in Arrived :
    /\ Len(requests[r1].inp.originalUrl) = 10 /\ requests[r1].inp.method = "GET"
    /\ Len(requests[r2].inp.originalUrl) = 10 /\ requests[r2].inp.method = "POST"
    /\ Positions(requests[r1].log, IsAct) # {}
    /\ Positions(requests[r2].log, IsAct) # {}

\* what reached a request from its collaborators: the body read, the dispatch
\* completed, the response ended by the handler of the pattern
IsOwnInput(e) ==
  \/ e.op \in {"bodyRead", "actDone"}
  \/ e.op = "end" /\ e.by = "handler"

\* an event with the handles in it blanked
Unhandled(e) ==
  IF e.op \in {"writeHead", "end"} THEN [e EXCEPT !.res = 0]
  ELSE IF e.op = "readBody" THEN [e EXCEPT !.req = 0]
  ELSE IF e.op = "act" THEN [e EXCEPT !.payload.request = 0, !.payload.response = 0]
  ELSE e
UnhandledLog(log) == [i \in 1 .. Len(log) |-> Unhandled(log[i])]

Settled(q) == q.st \in {"stopped", "dropped", "nexted", "replied", "silent"}

\* C15: whatever other requests are in flight and however their steps
\* interleave, a request reads the body of its own request handle, dispatches
\* its own handles and writes on its own response handle only; an autoreply
\* carries the result of its own dispatch, an error of its own dispatch is
\* what its own continuation gets; and two settled requests that
\* were given the same route, request and collaborator answers have the same
\* history up to their handles.
C15_RequestsAreIsolated ==
  /\ \A r \in Arrived :
       LET q == requests[r] IN
       /\ \A i \in Positions(q.log, IsWrite) : q.log[i].res = r
       /\ \A i \in Positions(q.log, IsReadBody) : q.log[i].req = r
       /\ \A i \in Positions(q.log, IsAct) :
            /\ q.log[i].payload.request = r
            /\ q.log[i].payload.response = r
       /\ \A i \in Positions(q.log, IsAdapterWrite) :
            q.log[i].op = "end" => q.log[i].body = JsonOf(ResultOf(q))
       /\ Failed(q) => SelectSeq(q.log, IsNext) = <<[op |-> "next", err |-> ErrorOf(q)]>>
  /\ \A r1, r2 \in Arrived :
       LET q1 == requests[r1]
           q2 == requests[r2]
       IN (/\ Settled(q1) /\ Settled(q2)
           /\ q1.handler = q2.handler
           /\ q1.inp = q2.inp
           /\ SelectSeq(q1.log, IsOwnInput) = SelectSeq(q2.log, IsOwnInput))
          => UnhandledLog(q1.log) = UnhandledLog(q2.log)

\* C15 happens: of two requests to the same route, the second has been
\* answered with its own result on its own handle while the first, dispatched,
\* is still in flight
C15_Witness ==
  /\ requests[1].handler = requests[2].handler
  /\ requests[1].st = "acting"
  /\ requests[2].st = "replied"
  /\ \E i \in Positions(requests[2].log, IsAdapterWrite) :
       /\ requests[2].log[i].op = "end"
       /\ requests[2].log[i].res = 2
       /\ requests[2].log[i].body = EchoJson

---------------------------------------------------------------------------
(* The claims about what is registered *)

\* the callables a composed handler runs, first to last: those of previous,
\* then current
RECURSIVE ComposedOf(_)
ComposedOf(f) ==
  IF f.t = "comp" THEN Append(ComposedOf(f.previous), f.current) ELSE <<f>>

\* C16: the chain registered for a route is the route's middleware entries in
\* the order listed, a string entry replaced by the callable the named
\* middleware mapping holds under it and a callable entry as it is, then the
\* request bridge of that route as the last; a route without a middleware list
\* gets the bridge alone.
C16_RegisteredChain ==
  (reg.pc # "start" /\ Truthy(config.context))
  => /\ \A k \in 1 .. Len(Uses) :
          /\ Uses[k].path = config.routes[k].path
          /\ ComposedOf(Uses[k].handler) = ChainMembers(config.routes[k])
          /\ config.routes[k].middleware = Undefined
               => Uses[k].handler = [t |-> "bridge", route |-> config.routes[k]]
     /\ \A k \in DOMAIN config.routes :
          (\A j \in 1 .. k : ValidRoute(config.routes[j])) => k <= Len(Uses)

\* C16 happens: a route listing a named middleware and then a callable, and a
\* route without a list, are both registered
C16_Witness ==
  /\ Len(Uses) = 2
  /\ config.routes[1].middleware = [t |-> "arr", v |-> <<Str("head"), Fn("deny")>>]
  /\ ComposedOf(Uses[1].handler)
       = <<Fn("head"), Fn("deny"), [t |-> "bridge", route |-> config.routes[1]]>>
  /\ config.routes[2].middleware = Undefined

\* C20 as stated: whenever route k is the first with an invalid middleware
\* entry, connect() has thrown and done has not been called. Without a context
\* connect() calls done with 'no context provided' and returns before it looks
\* at any route.
C20_ThrowsWheneverRouteInvalid ==
  (reg.pc # "start" /\ InvalidRoutes # {})
  => /\ reg.pc = "threw"
     /\ Dones = <<>>
     /\ Len(Uses) = FirstInvalidRoute - 1

\* C20, amended: when a context is supplied and route k is the first with an
\* invalid middleware entry, connect() has thrown the error naming that entry,
\* done has not been called at all, and the host server holds the routes
\* 1..k-1, in order, and none of k..n.
C20_ThrowsAfterRegisteringEarlierRoutes ==
  (reg.pc # "start" /\ Truthy(config.context) /\ InvalidRoutes # {})
  => LET k == FirstInvalidRoute IN
     /\ reg.pc = "threw"
     /\ reg.thrown = [t |-> "error",
                      v |-> "expected valid middleware, got " \o FirstInvalidEntry.v]
     /\ Dones = <<>>
     /\ Len(Uses) = k - 1
     /\ \A j \in 1 .. k - 1 : Uses[j].path = config.routes[j].path
     /\ \A j \in k .. Len(config.routes) :
          \A u \in DOMAIN Uses : Uses[u].path # config.routes[j].path

\* C20 happens: the second of two routes is the first invalid one, and the
\* call has thrown with the first route registered
C20_Witness ==
  /\ reg.pc = "threw"
  /\ Len(config.routes) = 2
  /\ FirstInvalidRoute = 2
  /\ Len(Uses) = 1
  /\ Uses[1].path = "/one"

---------------------------------------------------------------------------
(* The claims about what the bridge leaves undone *)

IsAdapterEnd(e) == e.op = "end" /\ e.by = "adapter"
IsMiddlewareWrite(e) == e.op \in {"writeHead", "end"} /\ e.by = "middleware"

\* C17: once a request's dispatch has completed without error, the host
\* server's next is never called for it, with autoreply or without; without
\* autoreply the adapter has not written on the response either.
C17_SuccessNeverContinues ==
  \A r \in Arrived :
    LET q == requests[r] IN
    Succeeded(q)
    => /\ Positions(q.log, IsNext) = {}
       /\ ~RouteServed(q).autoreply => Positions(q.log, IsAdapterWrite) = {}

\* C17 happens: the dispatch of a request to a route without autoreply has
\* completed without error and nothing is left to happen for the request
C17_Witness ==
  \E r \in Arrived :
    /\ Succeeded(requests[r])
    /\ ~RouteServed(requests[r]).autoreply
    /\ requests[r].st = "silent"

\* C18: for every request the bridge is entered at most once, dispatches at
\* most once, the host server's next is called at most once, the adapter ends
\* the response at most once, and next and an end by the adapter never both
\* happen.
C18_AtMostOnce ==
  \A r \in Arrived :
    LET q == requests[r] IN
    /\ Cardinality(Positions(q.log, IsBridgeStart)) <= 1
    /\ Cardinality(Positions(q.log, IsAct)) <= 1
    /\ Cardinality(Positions(q.log, IsNext)) <= 1
    /\ Cardinality(Positions(q.log, IsAdapterEnd)) <= 1
    /\ Positions(q.log, IsNext) = {} \/ Positions(q.log, IsAdapterEnd) = {}

\* C18 happens: one request has been through the bridge and a failed dispatch
\* to next, another through the bridge and a dispatch to the adapter's reply
C18_Witness ==
  /\ \E r \in Arrived :
       /\ Cardinality(Positions(requests[r].log, IsBridgeStart)) = 1
       /\ Cardinality(Positions(requests[r].log, IsAct)) = 1
       /\ Cardinality(Positions(requests[r].log, IsNext)) = 1
  /\ \E r \in Arrived :
       /\ Cardinality(Positions(requests[r].log, IsAct)) = 1
       /\ Cardinality(Positions(requests[r].log, IsAdapterEnd)) = 1

\* the callables entered for a request, in the order they were entered
Entered(q) ==
  LET starts == SelectSeq(q.log, IsStart) IN [i \in DOMAIN starts |-> starts[i].who]

\* C19: a request whose method is not among the route's methods goes through
\* the route's middleware like any other: the first member of the chain has
\* been entered, the members entered are the chain from its start, in order,
\* the head middleware entered has written the head, and the request is
\* dropped only by the bridge, every middleware having run before.
C19_MiddlewareRunWhateverTheMethod ==
  \A r \in Arrived :
    LET q == requests[r]
        chain == ChainMembers(RouteServed(q))
    IN ~MethodMatches(q)
       => /\ Entered(q) # <<>>
          /\ Len(Entered(q)) <= Len(chain)
          /\ Entered(q) = SubSeq(chain, 1, Len(Entered(q)))
          /\ \A i \in Positions(q.log, IsStart) :
               q.log[i].who = Fn("head")
               => /\ i < Len(q.log)
                  /\ q.log[i + 1] = [op |-> "writeHead", by |-> "middleware", res |-> r,
                                     status |-> 200, headers |-> JsonHeaders]
          /\ q.st = "dropped" => Entered(q) = chain

\* C19 happens: a POST to a route for GET alone has had its head written and
\* its response ended by the route's middleware
C19_Witness ==
  \E r \in Arrived :
    /\ requests[r].inp.method = "POST"
    /\ RouteServed(requests[r]).methods = <<"GET">>
    /\ \E i \in Positions(requests[r].log, IsMiddlewareWrite) :
         requests[r].log[i].op = "end"

====
